---- MODULE Spec2Model ----
(***************************************************************************)
(* Straight-through gradient computation for the Quantize ops of           *)
(* aimet_tensorflow (quantsim_straight_through_grad.py).                   *)
(*                                                                         *)
(* Tensors are records [shape, data] with data in row-major order.         *)
(* Numbers are exact rationals <<n, d, e>> = (n / d) * 10^e in canonical   *)
(* form (lowest terms, d > 0, n and d not divisible by ten, e as close to  *)
(* zero as the factors 2 and 5 of n and d allow), extended by the IEEE     *)
(* specials +inf <<1,0,0>>, -inf <<-1,0,0>> and NaN <<0,0,0>>.             *)
(* Rounding of float32 and the sign of zero are not modelled.              *)
(***************************************************************************)
EXTENDS Integers, Sequences, FiniteSets, TLC

VARIABLES inputs, grad, pc, result

vars == <<inputs, grad, pc, result>>

(***************************************************************************)
(* Extended rational arithmetic (the element type of tf.float32 tensors).  *)
(***************************************************************************)
Abs(n) == IF n < 0 THEN -n ELSE n

Sgn(n) == IF n < 0 THEN -1 ELSE IF n > 0 THEN 1 ELSE 0

RECURSIVE Gcd(_, _)
Gcd(a, b) == IF b = 0 THEN a ELSE Gcd(b, a % b)

RECURSIVE Pow10(_)
Pow10(k) == IF k = 0 THEN 1 ELSE 10 * Pow10(k - 1)

\* n = m * 10^k with m not divisible by ten: <<m, k>>.
RECURSIVE Strip10(_, _)
Strip10(n, k) == IF n # 0 /\ n % 10 = 0 THEN Strip10(n \div 10, k + 1) ELSE <<n, k>>

\* Moves factors 2 and 5 between the fraction and the exponent until the
\* exponent is as close to zero as they allow: 10 / 5 is 2, 5 / 10 is 1 / 2.
RECURSIVE Fold(_, _, _)
Fold(n, d, e) ==
    IF e > 0 /\ d % 5 = 0 THEN Fold(2 * n, d \div 5, e - 1)
    ELSE IF e > 0 /\ d % 2 = 0 THEN Fold(5 * n, d \div 2, e - 1)
    ELSE IF e < 0 /\ n % 5 = 0 THEN Fold(n \div 5, 2 * d, e + 1)
    ELSE IF e < 0 /\ n % 2 = 0 THEN Fold(n \div 2, 5 * d, e + 1)
    ELSE <<n, d, e>>

\* The canonical form of (n / d) * 10^e.
Norm(n, d, e) ==
    IF d = 0 THEN <<Sgn(n), 0, 0>>
    ELSE IF n = 0 THEN <<0, 1, 0>>
    ELSE LET g == Gcd(Abs(n), Abs(d))
             s == Sgn(d)
             sn == Strip10((s * n) \div g, e)
             sd == Strip10((s * d) \div g, 0)
         IN  Fold(sn[1], sd[1], sn[2] - sd[2])

\* The integer n.
R(n) == IF n % 10 # 0 THEN <<n, 1, 0>> ELSE Norm(n, 1, 0)

\* a is zero or an integer not divisible by ten.
IsPlain(a) == a[2] = 1 /\ a[3] = 0

\* The fraction n / d.
Frac(n, d) == Norm(n, d, 0)

NaN == <<0, 0, 0>>

IsNaN(a) == a[1] = 0 /\ a[2] = 0

IsInf(a) == a[1] # 0 /\ a[2] = 0

IsFinite(a) == a[2] # 0

IsZero(a) == a[1] = 0 /\ a[2] # 0

RNeg(a) == <<-a[1], a[2], a[3]>>

RAdd(a, b) ==
    IF IsPlain(a) /\ IsPlain(b) THEN R(a[1] + b[1])
    ELSE IF IsNaN(a) \/ IsNaN(b) THEN NaN
    ELSE IF IsInf(a) /\ IsInf(b) THEN (IF a = b THEN a ELSE NaN)
    ELSE IF IsInf(a) THEN a
    ELSE IF IsInf(b) THEN b
    ELSE LET m == IF a[3] <= b[3] THEN a[3] ELSE b[3]
             an == a[1] * Pow10(a[3] - m)
             bn == b[1] * Pow10(b[3] - m)
             g == Gcd(a[2], b[2])
         IN  Norm(an * (b[2] \div g) + bn * (a[2] \div g), (a[2] \div g) * b[2], m)

RSub(a, b) == RAdd(a, RNeg(b))

\* IEEE multiplication: 0 * inf is NaN.
RMul(a, b) ==
    IF IsPlain(a) /\ IsPlain(b) THEN R(a[1] * b[1])
    ELSE IF a[1] = 0 \/ b[1] = 0 \/ a[2] = 0 \/ b[2] = 0
    THEN Norm(a[1] * b[1], a[2] * b[2], 0)
    ELSE LET g1 == Gcd(Abs(a[1]), b[2])
             g2 == Gcd(Abs(b[1]), a[2])
         IN  Norm((a[1] \div g1) * (b[1] \div g2),
                  (a[2] \div g2) * (b[2] \div g1), a[3] + b[3])

\* 1 / b: 1/0 is +inf, 1/inf is 0.
Recip(b) == IF b[1] < 0 THEN Norm(-b[2], -b[1], -b[3]) ELSE Norm(b[2], b[1], -b[3])

\* a / b as IEEE division: x/0 is +-inf, 0/0 and inf/inf are NaN.
RDiv(a, b) == RMul(a, Recip(b))

\* a <= b; false as soon as one side is NaN.
RLe(a, b) ==
    IF IsPlain(a) /\ IsPlain(b) THEN a[1] <= b[1]
    ELSE IF IsNaN(a) \/ IsNaN(b) THEN FALSE
    ELSE IF IsInf(a) /\ IsInf(b) THEN a[1] <= b[1]
    ELSE IF IsInf(a) THEN a[1] < 0
    ELSE IF IsInf(b) THEN b[1] > 0
    ELSE RSub(b, a)[1] >= 0

\* tf.math.maximum / tf.math.minimum propagate NaN.
RMax(a, b) ==
    IF IsNaN(a) \/ IsNaN(b) THEN NaN ELSE IF RLe(a, b) THEN b ELSE a

RMin(a, b) ==
    IF IsNaN(a) \/ IsNaN(b) THEN NaN ELSE IF RLe(a, b) THEN a ELSE b

\* Numerator and denominator of a finite number as plain integers.
Num(a) == IF a[3] >= 0 THEN a[1] * Pow10(a[3]) ELSE a[1]

Den(a) == IF a[3] >= 0 THEN a[2] ELSE a[2] * Pow10(-a[3])

\* \div rounds towards minus infinity.
RFloor(a) == IF IsFinite(a) THEN R(Num(a) \div Den(a)) ELSE a

RCeil(a) == IF IsFinite(a) THEN R(-((-Num(a)) \div Den(a))) ELSE a

\* tf.round: round half to even.
RRound(a) ==
    IF ~IsFinite(a) THEN a
    ELSE LET f == Num(a) \div Den(a)
             twice == 2 * (Num(a) - f * Den(a))
         IN  IF twice < Den(a) THEN R(f)
             ELSE IF twice > Den(a) THEN R(f + 1)
             ELSE IF f % 2 = 0 THEN R(f) ELSE R(f + 1)

RECURSIVE Pow2(_)
Pow2(n) == IF n = 0 THEN 1 ELSE 2 * Pow2(n - 1)

\* tf.cast(<bool>, tf.float32)
CastBool(b) == IF b THEN R(1) ELSE R(0)

(***************************************************************************)
(* Tensors.                                                                *)
(***************************************************************************)
RECURSIVE Prod(_)
Prod(s) == IF s = <<>> THEN 1 ELSE Head(s) * Prod(Tail(s))

\* The elements as an explicit tuple (concatenation enumerates the function).
AsTuple(f) == f \o <<>>

Tensor(shape, data) == [shape |-> shape, data |-> AsTuple(data)]

Scalar(v) == Tensor(<<>>, <<v>>)

Rank(t) == Len(t.shape)

Size(t) == Len(t.data)

\* tf.reshape: same elements in the same row-major order.
Reshape(t, shape) == Tensor(shape, t.data)

\* tf.expand_dims(t, axis=0)
ExpandDims0(t) == Tensor(<<1>> \o t.shape, t.data)

\* tf.zeros_like
ZerosLike(t) == Tensor(t.shape, [i \in 1..Size(t) |-> R(0)])

\* Element i (1-based, row-major) of the broadcast of e: e either has the full
\* size, or is a scalar, or is a vector running along the last axis.
Bc(e, i) ==
    IF Size(e) = 1 THEN e.data[1] ELSE e.data[((i - 1) % Size(e)) + 1]

\* Element-wise binary operation with numpy broadcasting of the smaller operand.
Map2(Op(_, _), a, b) ==
    LET n == IF Size(a) >= Size(b) THEN Size(a) ELSE Size(b)
    IN  Tensor(IF Rank(a) >= Rank(b) THEN a.shape ELSE b.shape,
               [i \in 1..n |-> Op(Bc(a, i), Bc(b, i))])

Map1(Op(_), a) == Tensor(a.shape, [i \in 1..Size(a) |-> Op(a.data[i])])

\* tf.range(lo, hi): the axes lo .. hi-1, empty when hi <= lo.
Range(lo, hi) == [k \in 1..(IF hi > lo THEN hi - lo ELSE 0) |-> lo + k - 1]

InSeq(v, s) == \E k \in 1..Len(s) : s[k] = v

\* 0-based multi-index of the 0-based flat index i in a row-major tensor.
RECURSIVE Unflatten(_, _)
Unflatten(i, shape) ==
    IF shape = <<>> THEN <<>>
    ELSE LET inner == Prod(Tail(shape))
         IN  <<i \div inner>> \o Unflatten(i % inner, Tail(shape))

\* The entries of s at the (0-based) positions that are not in axis.
RECURSIVE Keep(_, _, _)
Keep(s, axis, k) ==
    IF s = <<>> THEN <<>>
    ELSE (IF InSeq(k, axis) THEN <<>> ELSE <<Head(s)>>) \o Keep(Tail(s), axis, k + 1)

RECURSIVE Flatten(_, _)
Flatten(idx, shape) ==
    IF shape = <<>> THEN 0
    ELSE Head(idx) * Prod(Tail(shape)) + Flatten(Tail(idx), Tail(shape))

\* The sum of the elements of data whose key is j.
RECURSIVE SumWhere(_, _, _, _)
SumWhere(data, keys, j, i) ==
    IF i = 0 THEN R(0)
    ELSE IF keys[i] = j THEN RAdd(SumWhere(data, keys, j, i - 1), data[i])
    ELSE SumWhere(data, keys, j, i - 1)

\* For every element of t, the 0-based flat index of the output element of
\* tf.reduce_sum(t, axis) it is added to.
ReduceKeys(t, axis, keptShape) ==
    [i \in 1..Size(t) |-> Flatten(Keep(Unflatten(i - 1, t.shape), axis, 0), keptShape)]

ReduceSumTo(t, keys, keptShape) ==
    Tensor(keptShape,
           [j \in 1..Prod(keptShape) |-> SumWhere(t.data, keys, j - 1, Size(t))])

\* tf.reduce_sum(t, axis=axis): the listed axes are summed away.
ReduceSum(t, axis) ==
    ReduceSumTo(t, ReduceKeys(t, axis, Keep(t.shape, axis, 0)), Keep(t.shape, axis, 0))

(***************************************************************************)
(* Program constants.                                                      *)
(***************************************************************************)
\* int(libpymo.TensorQuantizerOpMode.passThrough), the literal of line 63
pass_through_mode == 3

\* AxisHandling.LAST_TWO_AXES.value and the other value of the enumeration
LAST_TWO_AXES == "LAST_TWO_AXES"

LAST_AXIS == "LAST_AXIS"

\* epsilon = tf.constant(1e-5)
epsilon == Frac(1, 100000)

(***************************************************************************)
(* _compute_dloss_by_dx and the two gradients registered on it.            *)
(***************************************************************************)
\* Mutant: the upper bound of the mask is exclusive (tf.less instead of tf.less_equal).
compute_dloss_by_dx_exclusive(op, g) ==
    IF op.op_mode = pass_through_mode THEN g
    ELSE Tensor(g.shape,
                [i \in 1..Size(op.x) |->
                    RMul(IF RLe(Bc(op.encoding_min, i), op.x.data[i])
                         THEN CastBool(~RLe(Bc(op.encoding_max, i), op.x.data[i]))
                         ELSE R(0),
                         g.data[i])])

_compute_dloss_by_dx(op, g) ==
    IF op.op_mode = pass_through_mode THEN g
    ELSE Tensor(g.shape,
                [i \in 1..Size(op.x) |->
                    RMul(IF RLe(Bc(op.encoding_min, i), op.x.data[i])
                         THEN CastBool(RLe(op.x.data[i], Bc(op.encoding_max, i)))
                         ELSE R(0),
                         g.data[i])])

\* The tuple (dloss_by_dx, None, ...): only the first entry is a gradient.
_qc_straight_through_estimator_grad(op, g) ==
    [dloss_by_dx |-> IF op.is_int_data_type THEN _compute_dloss_by_dx(op, g) ELSE g]

\* Mutant: the recurrent-parameter gradient gated on the data type like QcQuantize.
recurrent_param_grad_gated(op, g) ==
    [dloss_by_dx |-> IF op.is_int_data_type THEN _compute_dloss_by_dx(op, g) ELSE g]

_qc_recurrent_param_straight_through_estimator_grad(op, g) ==
    [dloss_by_dx |-> _compute_dloss_by_dx(op, g)]

(***************************************************************************)
(* Pieces shared by the symmetric and the asymmetric calculator.           *)
(***************************************************************************)
\* encoding_max = tf.math.maximum(encoding_max, tf.add(encoding_min, epsilon))
clamp_encoding_max(encoding_min, encoding_max) ==
    Map2(LAMBDA mx, mn : RMax(mx, RAdd(mn, epsilon)), encoding_max, encoding_min)

\* num_steps = 2 ** bitwidth - 1
num_steps(bitwidth) == R(Pow2(bitwidth) - 1)

half_num_steps(bitwidth) == RDiv(num_steps(bitwidth), R(2))

\* One element of x_round = tf.round(inputs / delta) - offset
x_round_at(xi, di, oi) == RSub(RRound(RDiv(xi, di)), oi)

\* One element of x_quant = tf.clip_by_value(x_round, zero, num_steps)
x_quant_at(xr, ns) == RMax(RMin(xr, ns), R(0))

\* Mutant: exclusive bounds, greater(x_round, zero) * less(x_round, num_steps).
mask_at_exclusive(xr, ns) == RMul(CastBool(~RLe(xr, R(0))), CastBool(~RLe(ns, xr)))

\* One element of greater_equal(x_round, zero) * less_equal(x_round, num_steps)
mask_at(xr, ns) == RMul(CastBool(RLe(R(0), xr)), CastBool(RLe(xr, ns)))

x_round_of(x, delta, offset) ==
    Tensor(x.shape,
           [i \in 1..Size(x) |-> x_round_at(x.data[i], Bc(delta, i), Bc(offset, i))])

x_quant_of(x_round, ns) == Map1(LAMBDA v : x_quant_at(v, ns), x_round)

mask_tensor_of(x_round, ns) == Map1(LAMBDA v : mask_at(v, ns), x_round)

\* Mutant: every axis is reduced, whatever the rank of the encoding.
reduction_axis_all(delta, x) == Range(0, Rank(x))

\* axis = tf.cond(tf.equal(tf.rank(delta), 0), all axes, all axes but the last)
reduction_axis(delta, x) ==
    IF Rank(delta) = 0 THEN Range(0, Rank(x)) ELSE Range(0, Rank(x) - 1)

(***************************************************************************)
(* _compute_dloss_by_dmin_dmax_and_dx_symmetric                            *)
(***************************************************************************)
\* delta = encoding_max / tf.math.floor(half_num_steps), after the clamp
sym_delta(bitwidth, encoding_min, encoding_max) ==
    Map1(LAMBDA v : RDiv(v, RFloor(half_num_steps(bitwidth))),
         clamp_encoding_max(encoding_min, encoding_max))

\* Mutant: offset = -tf.math.floor(half_num_steps)
sym_offset_floor(bitwidth) == Scalar(RNeg(RFloor(half_num_steps(bitwidth))))

\* offset = -tf.math.ceil(half_num_steps)
sym_offset(bitwidth) == Scalar(RNeg(RCeil(half_num_steps(bitwidth))))

sym_x_round(x, bitwidth, encoding_min, encoding_max) ==
    x_round_of(x, sym_delta(bitwidth, encoding_min, encoding_max), sym_offset(bitwidth))

\* grad_encoding_max from the reduced sums (lines 140-144)
sym_grad_encoding_max(x, g, delta, offset, ns, fl, x_round, axis) ==
    Map1(LAMBDA v : RDiv(v, fl),
         Map2(RSub,
              ReduceSum(Tensor(x.shape,
                  [i \in 1..Size(x) |->
                      RMul(RAdd(x_quant_at(x_round.data[i], ns), Bc(offset, i)),
                           g.data[i])]), axis),
              ReduceSum(Tensor(x.shape,
                  [i \in 1..Size(x) |->
                      RMul(RMul(mask_at(x_round.data[i], ns),
                                RDiv(x.data[i], Bc(delta, i))), g.data[i])]), axis)))

\* Mutant: dloss_by_dmin returned without tf.negative.
sym_return_not_negated(grad_encoding_max, grad_tensor) ==
    [dloss_by_dmin |-> grad_encoding_max,
     dloss_by_dmax |-> grad_encoding_max,
     dloss_by_dx   |-> grad_tensor]

\* The returned tuple (line 146)
sym_return(grad_encoding_max, grad_tensor) ==
    [dloss_by_dmin |-> Map1(RNeg, grad_encoding_max),
     dloss_by_dmax |-> grad_encoding_max,
     dloss_by_dx   |-> grad_tensor]

\* Lines 128-146, with the quantities of lines 119-126 already computed.
sym_from_grid(x, g, delta, offset, ns, fl, x_round) ==
    sym_return(sym_grad_encoding_max(x, g, delta, offset, ns, fl, x_round,
                                     reduction_axis(delta, x)),
               Map2(RMul, mask_tensor_of(x_round, ns), g))

_compute_dloss_by_dmin_dmax_and_dx_symmetric(x, bitwidth, encoding_min, encoding_max, g) ==
    sym_from_grid(x, g, sym_delta(bitwidth, encoding_min, encoding_max),
                  sym_offset(bitwidth), num_steps(bitwidth),
                  RFloor(half_num_steps(bitwidth)),
                  sym_x_round(x, bitwidth, encoding_min, encoding_max))

(***************************************************************************)
(* _compute_dloss_by_dmin_dmax_and_dx_asymmetric                           *)
(***************************************************************************)
\* encoding_max - encoding_min, after the clamp
asym_width(encoding_min, encoding_max) ==
    Map2(RSub, clamp_encoding_max(encoding_min, encoding_max), encoding_min)

\* delta = (encoding_max - encoding_min) / num_steps
asym_delta(bitwidth, encoding_min, encoding_max) ==
    Map1(LAMBDA v : RDiv(v, num_steps(bitwidth)), asym_width(encoding_min, encoding_max))

\* b_zero clipped to [0, num_steps]; offset = -b_zero
asym_offset_from(ns, encoding_min, delta) ==
    Map2(LAMBDA mn, d : RNeg(RMin(ns, RMax(R(0), RRound(RDiv(RNeg(mn), d))))),
         encoding_min, delta)

asym_offset(bitwidth, encoding_min, encoding_max) ==
    asym_offset_from(num_steps(bitwidth), encoding_min,
                     asym_delta(bitwidth, encoding_min, encoding_max))

asym_x_round(x, bitwidth, encoding_min, encoding_max) ==
    x_round_of(x, asym_delta(bitwidth, encoding_min, encoding_max),
               asym_offset(bitwidth, encoding_min, encoding_max))

\* intermediate_term1 = tf.reduce_sum(grad_scale, axis) / num_steps
asym_term1(x, g, delta, offset, ns, x_round, axis) ==
    Map1(LAMBDA v : RDiv(v, ns),
         ReduceSum(Tensor(x.shape,
             [i \in 1..Size(x) |->
                 RMul(RSub(RAdd(x_quant_at(x_round.data[i], ns), Bc(offset, i)),
                           RDiv(RMul(x.data[i], mask_at(x_round.data[i], ns)),
                                Bc(delta, i))),
                      g.data[i])]), axis))

\* Mutant: grad_offset = grad_xq * mask_tensor, the unclipped elements.
asym_term2_unclipped(x, g, delta, ns, width, x_round, axis) ==
    Map2(RMul,
         Map1(LAMBDA w : RDiv(ns, RMul(w, w)), width),
         ReduceSum(Tensor(x.shape,
             [i \in 1..Size(x) |->
                 RMul(RMul(Bc(delta, i), g.data[i]),
                      mask_at(x_round.data[i], ns))]), axis))

\* intermediate_term2 = num_steps / (encoding_max - encoding_min) ** 2
\*                      * tf.reduce_sum(grad_offset, axis)
asym_term2(x, g, delta, ns, width, x_round, axis) ==
    Map2(RMul,
         Map1(LAMBDA w : RDiv(ns, RMul(w, w)), width),
         ReduceSum(Tensor(x.shape,
             [i \in 1..Size(x) |->
                 RMul(RMul(Bc(delta, i), g.data[i]),
                      RSub(R(1), mask_at(x_round.data[i], ns)))]), axis))

\* Lines 199-205
asym_return(encoding_min, clamped_max, term1, term2, grad_tensor) ==
    [dloss_by_dmin |-> Map2(RAdd, Map1(RNeg, term1), Map2(RMul, clamped_max, term2)),
     dloss_by_dmax |-> Map2(RSub, term1, Map2(RMul, encoding_min, term2)),
     dloss_by_dx   |-> grad_tensor]

\* Lines 180-205, with the quantities of lines 170-178 already computed.
asym_from_grid(x, g, encoding_min, clamped_max, delta, offset, ns, x_round, axis) ==
    asym_return(encoding_min, clamped_max,
                asym_term1(x, g, delta, offset, ns, x_round, axis),
                asym_term2(x, g, delta, ns, Map2(RSub, clamped_max, encoding_min),
                           x_round, axis),
                Map2(RMul, mask_tensor_of(x_round, ns), g))

_compute_dloss_by_dmin_dmax_and_dx_asymmetric(x, bitwidth, encoding_min, encoding_max, g) ==
    asym_from_grid(x, g, encoding_min,
                   clamp_encoding_max(encoding_min, encoding_max),
                   asym_delta(bitwidth, encoding_min, encoding_max),
                   asym_offset(bitwidth, encoding_min, encoding_max),
                   num_steps(bitwidth),
                   asym_x_round(x, bitwidth, encoding_min, encoding_max),
                   reduction_axis(asym_delta(bitwidth, encoding_min, encoding_max), x))

(***************************************************************************)
(* _calculate_gradients and the range-learning gradients.                  *)
(***************************************************************************)
_calculate_gradients(input_tensor, bit_width, encoding_min, encoding_max, use_symmetric_encoding, op_mode, g) ==
    IF op_mode = pass_through_mode
    THEN [dloss_by_dmin |-> ZerosLike(encoding_min),
          dloss_by_dmax |-> ZerosLike(encoding_max),
          dloss_by_dx   |-> g]
    ELSE IF use_symmetric_encoding
    THEN _compute_dloss_by_dmin_dmax_and_dx_symmetric(
             input_tensor, bit_width, encoding_min, encoding_max, g)
    ELSE _compute_dloss_by_dmin_dmax_and_dx_asymmetric(
             input_tensor, bit_width, encoding_min, encoding_max, g)

quantsim_custom_grad_learned_grid(op, g) ==
    _calculate_gradients(op.x, op.bit_width, op.encoding_min, op.encoding_max,
                         op.use_symmetric_encoding, op.op_mode, g)

\* The rightmost four extents of the input after three tf.expand_dims(axis=0).
orig_shape_last4(x) ==
    LET orig_shape == ExpandDims0(ExpandDims0(ExpandDims0(x))).shape
    IN  SubSeq(orig_shape, Len(orig_shape) - 3, Len(orig_shape))

reshape_input_and_grad_for_axis_handling(x, g, axis_handling) ==
    IF axis_handling = LAST_TWO_AXES
    THEN LET s == orig_shape_last4(x)
         IN  <<Reshape(x, <<s[1], s[2], s[3] * s[4]>>),
               Reshape(g, <<s[1], s[2], s[3] * s[4]>>)>>
    ELSE <<x, g>>

\* Mutant: dloss_by_dx is returned in its collapsed form.
reshape_dloss_by_dx_skipped(x, dloss_by_dx, axis_handling) == dloss_by_dx

reshape_dloss_by_dx_for_axis_handling(x, dloss_by_dx, axis_handling) ==
    IF axis_handling = LAST_TWO_AXES
    THEN Reshape(dloss_by_dx, orig_shape_last4(x))
    ELSE dloss_by_dx

\* Mutant: the data-type gate also zeroes the encoding gradients.
per_channel_return_gated(x, grads, is_int_data_type, axis_handling, grad_rebound) ==
    [dloss_by_dmin |-> IF is_int_data_type THEN grads.dloss_by_dmin
                       ELSE ZerosLike(grads.dloss_by_dmin),
     dloss_by_dmax |-> IF is_int_data_type THEN grads.dloss_by_dmax
                       ELSE ZerosLike(grads.dloss_by_dmax),
     dloss_by_dx   |-> IF is_int_data_type
                       THEN reshape_dloss_by_dx_for_axis_handling(
                                x, grads.dloss_by_dx, axis_handling)
                       ELSE grad_rebound]

\* Lines 288-293: grad is by now the gradient line 279 rebound the name to.
per_channel_return(x, grads, is_int_data_type, axis_handling, grad_rebound) ==
    [dloss_by_dmin |-> grads.dloss_by_dmin,
     dloss_by_dmax |-> grads.dloss_by_dmax,
     dloss_by_dx   |-> IF is_int_data_type
                       THEN reshape_dloss_by_dx_for_axis_handling(
                                x, grads.dloss_by_dx, axis_handling)
                       ELSE grad_rebound]

per_channel_from_reshaped(x, bitwidth, op_mode, encoding_min, encoding_max, is_symmetric, is_int_data_type, axis_handling, reshaped) ==
    per_channel_return(x,
        _calculate_gradients(reshaped[1], bitwidth, encoding_min, encoding_max,
                             is_symmetric, op_mode, reshaped[2]),
        is_int_data_type, axis_handling, reshaped[2])

_compute_dloss_by_dmin_dmax_and_dx_for_per_channel(x, bitwidth, op_mode, encoding_min, encoding_max, is_symmetric, is_int_data_type, axis_handling, g) ==
    per_channel_from_reshaped(x, bitwidth, op_mode, encoding_min, encoding_max,
        is_symmetric, is_int_data_type, axis_handling,
        reshape_input_and_grad_for_axis_handling(x, g, axis_handling))

quantsim_per_channel_custom_grad_learned_grid(op, g) ==
    _compute_dloss_by_dmin_dmax_and_dx_for_per_channel(
        op.x, op.bit_width, op.op_mode, op.encoding_min, op.encoding_max,
        op.use_symmetric_encoding, op.is_int_data_type, op.axis_handling, g)

(***************************************************************************)
(* The inputs of one backward call.                                        *)
(***************************************************************************)
MaxRank == 4

MaxDim == 2

MaxElems == 4

MaxBitWidth == 3

RECURSIVE SeqsOver(_, _)
SeqsOver(S, n) ==
    IF n = 0 THEN {<<>>}
    ELSE {<<h>> \o t : h \in S, t \in SeqsOver(S, n - 1)}

\* Every shape of rank 1..MaxRank with extents 1..MaxDim and at most MaxElems elements.
Shapes ==
    {s \in UNION {SeqsOver(1..MaxDim, r) : r \in 1..MaxRank} : Prod(s) <= MaxElems}

XVals == <<R(2), R(-4), R(4), R(8), R(-8)>>

GVals == <<R(1), R(-2), R(3)>>

\* (encoding_min, encoding_max) pairs: a regular range, min = max, the clamp
\* landing on zero, and max < min <= 0.
EncPairs == << <<R(-4), R(4)>>, <<R(0), R(0)>>,
               <<RNeg(epsilon), RNeg(epsilon)>>, <<R(-1), R(-2)>> >>

XSeeds == 0..(Len(XVals) - 1)

EncSeeds == 0..(Len(EncPairs) - 1)

BitWidths == 1..MaxBitWidth

OpModes == {pass_through_mode - 1, pass_through_mode}

AxisHandlings == {LAST_AXIS, LAST_TWO_AXES}

Cycle(vals, seed, n) == [i \in 1..n |-> vals[((seed + i - 1) % Len(vals)) + 1]]

\* A scalar encoding (channels = 0) or one value per channel.
Encoding(which, seed, channels) ==
    IF channels = 0 THEN Scalar(EncPairs[seed + 1][which])
    ELSE Tensor(<<channels>>,
                [c \in 1..channels |-> EncPairs[((seed + c - 1) % Len(EncPairs)) + 1][which]])

LastDim(x) == x.shape[Len(x.shape)]

\* The number of channels of x as the per-channel op of the given axis handling sees it.
Channels(x, axis_handling) ==
    LastDim(reshape_input_and_grad_for_axis_handling(x, x, axis_handling)[1])

\* e is a scalar or runs along the last axis of x (what broadcasting accepts).
BroadcastsTo(e, x) == Rank(e) = 0 \/ (Rank(e) = 1 /\ Size(e) = LastDim(x))

NoTensor == Tensor(<<>>, <<>>)

NoResult == [dloss_by_dx |-> NoTensor, dloss_by_dmin |-> NoTensor, dloss_by_dmax |-> NoTensor]

\* The op inputs and the upstream gradient of one backward call.
Call(shape, seed, eseed, per_channel, bit_width, op_mode, use_symmetric_encoding, is_int_data_type, axis_handling) ==
    LET x == Tensor(shape, Cycle(XVals, seed, Prod(shape)))
        channels == IF per_channel THEN Channels(x, axis_handling) ELSE 0
    IN  /\ grad = Tensor(shape, Cycle(GVals, seed, Prod(shape)))
        /\ inputs = [x |-> x,
                     op_mode |-> op_mode,
                     encoding_min |-> Encoding(1, eseed, channels),
                     encoding_max |-> Encoding(2, eseed, channels),
                     bit_width |-> bit_width,
                     use_symmetric_encoding |-> use_symmetric_encoding,
                     is_int_data_type |-> is_int_data_type,
                     axis_handling |-> axis_handling]

Init ==
    /\ pc = "ready"
    /\ result = NoResult
    /\ \E shape \in Shapes, seed \in XSeeds, eseed \in EncSeeds, per_channel \in BOOLEAN,
          bit_width \in BitWidths, op_mode \in OpModes,
          use_symmetric_encoding \in BOOLEAN, is_int_data_type \in BOOLEAN,
          axis_handling \in AxisHandlings :
           Call(shape, seed, eseed, per_channel, bit_width, op_mode,
                use_symmetric_encoding, is_int_data_type, axis_handling)

(***************************************************************************)
(* One action per registered gradient function.                            *)
(***************************************************************************)
Returned(r) ==
    [dloss_by_dx |-> r.dloss_by_dx, dloss_by_dmin |-> NoTensor, dloss_by_dmax |-> NoTensor]

QcQuantize ==
    /\ pc = "ready"
    /\ BroadcastsTo(inputs.encoding_min, inputs.x)
    /\ result' = Returned(_qc_straight_through_estimator_grad(inputs, grad))
    /\ pc' = "QcQuantize"
    /\ UNCHANGED <<inputs, grad>>

QcQuantizeRecurrentParam ==
    /\ pc = "ready"
    /\ BroadcastsTo(inputs.encoding_min, inputs.x)
    /\ result' = Returned(_qc_recurrent_param_straight_through_estimator_grad(inputs, grad))
    /\ pc' = "QcQuantizeRecurrentParam"
    /\ UNCHANGED <<inputs, grad>>

QcQuantizeRangeLearningCustomGradient ==
    /\ pc = "ready"
    /\ BroadcastsTo(inputs.encoding_min, inputs.x)
    /\ result' = quantsim_custom_grad_learned_grid(inputs, grad)
    /\ pc' = "QcQuantizeRangeLearningCustomGradient"
    /\ UNCHANGED <<inputs, grad>>

QcQuantizePerChannelRangeLearningCustomGradient ==
    /\ pc = "ready"
    /\ BroadcastsTo(inputs.encoding_min,
                    reshape_input_and_grad_for_axis_handling(
                        inputs.x, grad, inputs.axis_handling)[1])
    /\ result' = quantsim_per_channel_custom_grad_learned_grid(inputs, grad)
    /\ pc' = "QcQuantizePerChannelRangeLearningCustomGradient"
    /\ UNCHANGED <<inputs, grad>>

Next ==
    \/ QcQuantize
    \/ QcQuantizeRecurrentParam
    \/ QcQuantizeRangeLearningCustomGradient
    \/ QcQuantizePerChannelRangeLearningCustomGradient

Spec == Init /\ [][Next]_vars

(***************************************************************************)
(* Vocabulary of the properties.                                           *)
(***************************************************************************)
RangeLearningDone ==
    pc \in {"QcQuantizeRangeLearningCustomGradient",
            "QcQuantizePerChannelRangeLearningCustomGradient"}

PerChannelDone == pc = "QcQuantizePerChannelRangeLearningCustomGradient"

Active == inputs.op_mode # pass_through_mode

\* The range-learning call computed dloss_by_dx through a calculator.
CalculatorDone ==
    /\ RangeLearningDone
    /\ Active
    /\ (PerChannelDone => inputs.is_int_data_type)

IsZeroTensor(t) == \A i \in 1..Size(t) : IsZero(t.data[i])

HasFiniteNonZero(t) == \E i \in 1..Size(t) : IsFinite(t.data[i]) /\ ~IsZero(t.data[i])

\* C1 (as claimed): in pass-through mode both range-learning gradients return
\* dL/dx equal to the upstream grad with the shape of x, and all-zero dL/dmin,
\* dL/dmax shaped like the encodings.
C1_PassThroughIdentity ==
    (RangeLearningDone /\ ~Active) =>
        /\ result.dloss_by_dx.data = grad.data
        /\ result.dloss_by_dx.shape = inputs.x.shape
        /\ result.dloss_by_dmin = ZerosLike(inputs.encoding_min)
        /\ result.dloss_by_dmax = ZerosLike(inputs.encoding_max)

\* C2 (as claimed): with is_int_data_type false, the simple per-tensor and the
\* per-channel range-learning gradient return the upstream grad itself, values
\* and shape.
C2_FloatingPointBypass ==
    (pc \in {"QcQuantize", "QcQuantizePerChannelRangeLearningCustomGradient"}
        /\ ~inputs.is_int_data_type) =>
        result.dloss_by_dx = grad

\* The divisors of the symmetric calculator: floor(half_num_steps) and delta.
sym_divisors_nonzero(bitwidth, encoding_min, encoding_max) ==
    /\ ~IsZero(RFloor(half_num_steps(bitwidth)))
    /\ \A i \in 1..Size(sym_delta(bitwidth, encoding_min, encoding_max)) :
          ~IsZero(sym_delta(bitwidth, encoding_min, encoding_max).data[i])

\* The divisors of the asymmetric calculator: num_steps, delta and width ** 2.
asym_divisors_nonzero(bitwidth, encoding_min, encoding_max) ==
    /\ ~IsZero(num_steps(bitwidth))
    /\ \A i \in 1..Size(asym_delta(bitwidth, encoding_min, encoding_max)) :
          /\ ~IsZero(asym_delta(bitwidth, encoding_min, encoding_max).data[i])
          /\ ~IsZero(RMul(asym_width(encoding_min, encoding_max).data[i],
                          asym_width(encoding_min, encoding_max).data[i]))

\* C3 (as claimed): after the clamp, no divisor of the calculator a
\* range-learning call runs is zero, whatever the bit width and the range.
C3_ClampPreventsDivisionByZero ==
    RangeLearningDone =>
        IF inputs.use_symmetric_encoding
        THEN sym_divisors_nonzero(inputs.bit_width, inputs.encoding_min, inputs.encoding_max)
        ELSE asym_divisors_nonzero(inputs.bit_width, inputs.encoding_min, inputs.encoding_max)

C5_SymmetricAntisymmetry ==
    (RangeLearningDone /\ inputs.use_symmetric_encoding) =>
        /\ result.dloss_by_dmin.shape = result.dloss_by_dmax.shape
        /\ \A i \in 1..Size(result.dloss_by_dmax) :
              result.dloss_by_dmin.data[i] = RNeg(result.dloss_by_dmax.data[i])

C5_Witness ==
    /\ RangeLearningDone
    /\ inputs.use_symmetric_encoding
    /\ Active
    /\ HasFiniteNonZero(result.dloss_by_dmax)

\* x_round of the calculator the range-learning call selects.  The per-channel
\* reshape keeps the row-major order, so element i of x is element i of the
\* reshaped input.
XRound ==
    IF inputs.use_symmetric_encoding
    THEN sym_x_round(inputs.x, inputs.bit_width, inputs.encoding_min, inputs.encoding_max)
    ELSE asym_x_round(inputs.x, inputs.bit_width, inputs.encoding_min, inputs.encoding_max)

NumSteps == num_steps(inputs.bit_width)

\* C6: in active mode dL/dx equals grad on every element with
\* 0 <= xRound <= numSteps and is 0 on every element with xRound <= -1 or
\* xRound >= numSteps + 1, in the symmetric and in the asymmetric calculator.
C6_MaskingBoundary ==
    CalculatorDone =>
        LET xr == XRound.data
            ns == NumSteps
        IN  \A i \in 1..Size(inputs.x) :
                /\ (RLe(R(0), xr[i]) /\ RLe(xr[i], ns)) =>
                       /\ mask_at(xr[i], ns) = R(1)
                       /\ result.dloss_by_dx.data[i] = grad.data[i]
                /\ (RLe(xr[i], R(-1)) \/ RLe(RAdd(ns, R(1)), xr[i])) =>
                       /\ mask_at(xr[i], ns) = R(0)
                       /\ result.dloss_by_dx.data[i] = R(0)

\* Both inclusive bounds and both first excluded values occur in one tensor pair.
C6_Witness ==
    /\ CalculatorDone
    /\ LET xr == XRound.data
           ns == NumSteps
       IN  \E i, j \in 1..Size(inputs.x) :
              /\ xr[i] \in {R(0), ns}
              /\ xr[j] \in {R(-1), RAdd(ns, R(1))}
              /\ result.dloss_by_dx.data[i] = grad.data[i]
              /\ result.dloss_by_dx.data[j] = R(0)

\* The shape of x left-padded with singleton axes to rank MaxRank.
PaddedShape(shape) ==
    [k \in 1..MaxRank |->
        IF k <= MaxRank - Len(shape) THEN 1 ELSE shape[k - (MaxRank - Len(shape))]]

CalculatorInput ==
    IF PerChannelDone
    THEN reshape_input_and_grad_for_axis_handling(inputs.x, grad, inputs.axis_handling)[1]
    ELSE inputs.x

\* The sum of f over the elements of channel c (0-based) when the last axis has
\* n channels, or over all elements when n = 0.
RECURSIVE ChannelSum(_, _, _, _)
ChannelSum(f, n, c, i) ==
    IF i = 0 THEN R(0)
    ELSE IF n = 0 \/ (i - 1) % n = c
         THEN RAdd(ChannelSum(f, n, c, i - 1), f[i])
         ELSE ChannelSum(f, n, c, i - 1)

\* Per element: (x_quant + offset) * grad and mask * (x / delta) * grad of the
\* symmetric calculator.
SymFirst ==
    LET xr == XRound.data
        ns == NumSteps
        offset == sym_offset(inputs.bit_width).data[1]
    IN  [i \in 1..Size(inputs.x) |->
            RMul(RAdd(x_quant_at(xr[i], ns), offset), grad.data[i])]

SymSecond ==
    LET xr == XRound.data
        ns == NumSteps
        delta == sym_delta(inputs.bit_width, inputs.encoding_min, inputs.encoding_max)
    IN  [i \in 1..Size(inputs.x) |->
            RMul(RMul(mask_at(xr[i], ns), RDiv(inputs.x.data[i], Bc(delta, i))),
                 grad.data[i])]

\* Per element: grad_scale and grad_offset of the asymmetric calculator.
AsymScale ==
    LET xr == XRound.data
        ns == NumSteps
        delta == asym_delta(inputs.bit_width, inputs.encoding_min, inputs.encoding_max)
        offset == asym_offset(inputs.bit_width, inputs.encoding_min, inputs.encoding_max)
    IN  [i \in 1..Size(inputs.x) |->
            RMul(RSub(RAdd(x_quant_at(xr[i], ns), Bc(offset, i)),
                      RDiv(RMul(inputs.x.data[i], mask_at(xr[i], ns)), Bc(delta, i))),
                 grad.data[i])]

AsymOffset ==
    LET xr == XRound.data
        ns == NumSteps
        delta == asym_delta(inputs.bit_width, inputs.encoding_min, inputs.encoding_max)
    IN  [i \in 1..Size(inputs.x) |->
            RMul(RMul(Bc(delta, i), grad.data[i]), RSub(R(1), mask_at(xr[i], ns)))]

\* The encoding gradients of the channels 1..n, or of the whole tensor when
\* n = 0: the calculators' formulas on the sums over each channel's elements.
ExpectedSym(n, first, second) ==
    LET dmax == AsTuple([c \in 1..(IF n = 0 THEN 1 ELSE n) |->
                    RDiv(RSub(ChannelSum(first, n, c - 1, Size(inputs.x)),
                              ChannelSum(second, n, c - 1, Size(inputs.x))),
                         RFloor(half_num_steps(inputs.bit_width)))])
    IN  [dmin |-> AsTuple([c \in 1..Len(dmax) |-> RNeg(dmax[c])]), dmax |-> dmax]

ExpectedAsym(n, scale, offset, width, clamped_max) ==
    LET term1 == AsTuple([c \in 1..(IF n = 0 THEN 1 ELSE n) |->
                     RDiv(ChannelSum(scale, n, c - 1, Size(inputs.x)), NumSteps)])
        term2 == AsTuple([c \in 1..(IF n = 0 THEN 1 ELSE n) |->
                     RMul(RDiv(NumSteps, RMul(width[c], width[c])),
                          ChannelSum(offset, n, c - 1, Size(inputs.x)))])
    IN  [dmin |-> AsTuple([c \in 1..Len(term1) |->
                      RAdd(RNeg(term1[c]), RMul(clamped_max[c], term2[c]))]),
         dmax |-> AsTuple([c \in 1..Len(term1) |->
                      RSub(term1[c], RMul(inputs.encoding_min.data[c], term2[c]))])]

Expected(n) ==
    IF inputs.use_symmetric_encoding
    THEN ExpectedSym(n, AsTuple(SymFirst), AsTuple(SymSecond))
    ELSE ExpectedAsym(n, AsTuple(AsymScale), AsTuple(AsymOffset),
                      asym_width(inputs.encoding_min, inputs.encoding_max).data,
                      clamp_encoding_max(inputs.encoding_min, inputs.encoding_max).data)

\* The number of channels the encoding gradients have: 0 for a scalar encoding.
EncodingChannels == IF Rank(inputs.encoding_min) = 0 THEN 0 ELSE LastDim(CalculatorInput)

\* C8: in active mode the encoding gradients of both calculators are a scalar
\* summed over all elements when the encoding has rank 0, and hold one entry per
\* last-axis channel, summed over that channel's elements, when it has rank >= 1.
C8_ReductionAxes ==
    (RangeLearningDone /\ Active) =>
        LET n == EncodingChannels
            expected == Expected(n)
        IN  /\ result.dloss_by_dmax.shape = (IF n = 0 THEN <<>> ELSE <<n>>)
            /\ result.dloss_by_dmin.shape = result.dloss_by_dmax.shape
            /\ result.dloss_by_dmax.data = expected.dmax
            /\ result.dloss_by_dmin.data = expected.dmin

\* A per-channel call with two channels of two elements each whose gradients differ.
C8_Witness ==
    /\ RangeLearningDone
    /\ Active
    /\ Rank(inputs.encoding_min) = 1
    /\ CalculatorInput.shape = <<2, 2>>
    /\ result.dloss_by_dmax.shape = <<2>>
    /\ IsFinite(result.dloss_by_dmax.data[1])
    /\ IsFinite(result.dloss_by_dmax.data[2])
    /\ result.dloss_by_dmax.data[1] # result.dloss_by_dmax.data[2]

\* The inputs of the concrete symmetric per-tensor scenario.
C9_Scenario ==
    /\ inputs.bit_width = 3
    /\ inputs.use_symmetric_encoding
    /\ Active
    /\ inputs.x = Tensor(<<1>>, <<R(2)>>)
    /\ grad = Tensor(<<1>>, <<R(1)>>)
    /\ Rank(inputs.encoding_max) = 0
    /\ clamp_encoding_max(inputs.encoding_min, inputs.encoding_max) = Scalar(R(4))

\* C9: bit width 3, clamped encoding_max 4, x = 2 and grad = 1 give, in the
\* symmetric calculator, xRound = 6, xQuant = 6, mask = 1, dL/dx = 1,
\* dL/dmax = 1/6 and dL/dmin = -1/6.
C9_ConcreteSymmetricScenario ==
    (pc = "QcQuantizeRangeLearningCustomGradient" /\ C9_Scenario) =>
        /\ NumSteps = R(7)
        /\ RFloor(half_num_steps(inputs.bit_width)) = R(3)
        /\ sym_offset(inputs.bit_width) = Scalar(R(-4))
        /\ sym_delta(inputs.bit_width, inputs.encoding_min, inputs.encoding_max)
               = Scalar(Frac(4, 3))
        /\ XRound.data = <<R(6)>>
        /\ x_quant_of(XRound, NumSteps).data = <<R(6)>>
        /\ mask_tensor_of(XRound, NumSteps).data = <<R(1)>>
        /\ result.dloss_by_dx = Tensor(<<1>>, <<R(1)>>)
        /\ result.dloss_by_dmax = Scalar(Frac(1, 6))
        /\ result.dloss_by_dmin = Scalar(Frac(-1, 6))

C9_Witness ==
    /\ pc = "QcQuantizeRangeLearningCustomGradient"
    /\ C9_Scenario
    /\ result.dloss_by_dmax = Scalar(Frac(1, 6))

\* C10: the recurrent-parameter gradient ignores is_int_data_type: its dL/dx is
\* the same for both values of the flag and is what the simple per-tensor
\* gradient returns on the same inputs with is_int_data_type true.
C10_RecurrentIgnoresDataType ==
    pc = "QcQuantizeRecurrentParam" =>
        /\ \A flag \in BOOLEAN :
              result.dloss_by_dx =
                  _qc_recurrent_param_straight_through_estimator_grad(
                      [inputs EXCEPT !.is_int_data_type = flag], grad).dloss_by_dx
        /\ result.dloss_by_dx =
               _qc_straight_through_estimator_grad(
                   [inputs EXCEPT !.is_int_data_type = TRUE], grad).dloss_by_dx

\* A float op whose recurrent-parameter gradient is masked all the same.
C10_Witness ==
    /\ pc = "QcQuantizeRecurrentParam"
    /\ ~inputs.is_int_data_type
    /\ Active
    /\ result.dloss_by_dx # grad

\* C11: in the simple per-tensor gradient with is_int_data_type true, when
\* op_mode is not the pass-through code each element of dL/dx is the grad
\* element if encoding_min <= x <= encoding_max (both bounds inclusive) and 0
\* otherwise; when op_mode is the pass-through code dL/dx is grad whatever x
\* and the encoding range are.
C11_SimpleStraightThroughMask ==
    (pc = "QcQuantize" /\ inputs.is_int_data_type) =>
        /\ result.dloss_by_dx.shape = grad.shape
        /\ \A i \in 1..Size(inputs.x) :
              result.dloss_by_dx.data[i] =
                  IF ~Active THEN grad.data[i]
                  ELSE IF /\ RLe(Bc(inputs.encoding_min, i), inputs.x.data[i])
                          /\ RLe(inputs.x.data[i], Bc(inputs.encoding_max, i))
                  THEN grad.data[i]
                  ELSE R(0)

\* C11 witness: an active integer call with an element on each bound of the
\* range that keeps its nonzero grad and an element above the range that
\* loses it.
C11_Witness ==
    /\ pc = "QcQuantize"
    /\ inputs.is_int_data_type
    /\ Active
    /\ \E i, j, k \in 1..Size(inputs.x) :
          /\ inputs.x.data[i] = Bc(inputs.encoding_max, i)
          /\ inputs.x.data[j] = Bc(inputs.encoding_min, j)
          /\ RLe(Bc(inputs.encoding_min, i), Bc(inputs.encoding_max, i))
          /\ ~RLe(inputs.x.data[k], Bc(inputs.encoding_max, k))
          /\ result.dloss_by_dx.data[i] = grad.data[i]
          /\ result.dloss_by_dx.data[j] = grad.data[j]
          /\ result.dloss_by_dx.data[k] = R(0)
          /\ ~IsZero(grad.data[k])

\* Per element: grad where the asymmetric mask is 0, and 0 elsewhere.
ClippedGrad ==
    LET xr == XRound.data
        ns == NumSteps
    IN  [i \in 1..Size(inputs.x) |->
            IF mask_at(xr[i], ns) = R(0) THEN grad.data[i] ELSE R(0)]

\* C12: in the asymmetric calculator in active mode dL/dmin + dL/dmax equals,
\* per entry of the encoding, the sum over the reduction axes of grad on the
\* clipped elements (mask = 0); when no element is clipped dL/dmin = -dL/dmax.
C12_AsymmetricClippingBalance ==
    (RangeLearningDone /\ Active /\ ~inputs.use_symmetric_encoding) =>
        LET n == EncodingChannels
            clipped == AsTuple(ClippedGrad)
            dmin == result.dloss_by_dmin.data
            dmax == result.dloss_by_dmax.data
        IN  /\ Len(dmin) = (IF n = 0 THEN 1 ELSE n)
            /\ Len(dmax) = Len(dmin)
            /\ \A c \in 1..Len(dmin) :
                  RAdd(dmin[c], dmax[c]) = ChannelSum(clipped, n, c - 1, Size(inputs.x))
            /\ (\A i \in 1..Len(clipped) : mask_at(XRound.data[i], NumSteps) = R(1)) =>
                   \A c \in 1..Len(dmin) : dmin[c] = RNeg(dmax[c])

\* C12 witness: an active asymmetric call with a clipped and an unclipped
\* element whose encoding gradients do not cancel.
C12_Witness ==
    /\ RangeLearningDone
    /\ Active
    /\ ~inputs.use_symmetric_encoding
    /\ \E i, j \in 1..Size(inputs.x) :
          /\ mask_at(XRound.data[i], NumSteps) = R(0)
          /\ mask_at(XRound.data[j], NumSteps) = R(1)
    /\ IsFinite(result.dloss_by_dmin.data[1])
    /\ IsFinite(result.dloss_by_dmax.data[1])
    /\ ~IsZero(result.dloss_by_dmax.data[1])
    /\ ~IsZero(RAdd(result.dloss_by_dmin.data[1], result.dloss_by_dmax.data[1]))

====
